---- MODULE Spec2Model ----
(***************************************************************************)
(* Model of the raytracer crate: Vector3D, Interval, Ray, HitRecord,       *)
(* Sphere, HittableList and Camera.                                        *)
(*                                                                         *)
(* f64 values are modelled as extended rationals [n, d] in lowest terms:   *)
(* d > 0 is the finite value n/d, 1/0 is +inf, -1/0 is -inf and 0/0 is     *)
(* NaN.  Addition, multiplication, division and comparison follow IEEE-754 *)
(* on these values (x/0 = +-inf, 0*inf = NaN, inf-inf = NaN, every         *)
(* comparison with NaN is false) and are exact on finite values; sqrt is   *)
(* exact on perfect squares and otherwise rounded down to a multiple of    *)
(* 1/SqrtPrec.  Signed zeros are not distinguished.                        *)
(***************************************************************************)
EXTENDS Integers, Sequences, FiniteSets, TLC

\* --------------------------------------------------------------- bounds
MaxListLen == 2
SqrtPrec == 8
MaxWidth == 3
MaxPixels == 6
MaxSamples == 2

\* ------------------------------------------------------------ f64 layer
Abs(n) == IF n < 0 THEN -n ELSE n

Sign(n) == IF n < 0 THEN -1 ELSE IF n > 0 THEN 1 ELSE 0

RECURSIVE GCD(_, _)
GCD(a, b) == IF b = 0 THEN a ELSE GCD(b, a % b)

Lowest(n, d, g) == [n |-> n \div g, d |-> d \div g]

\* the value n/d for d >= 0, in lowest terms
Q(n, d) == IF d = 0 THEN [n |-> Sign(n), d |-> 0] ELSE Lowest(n, d, GCD(Abs(n), d))

I(n) == [n |-> n, d |-> 1]

NAN == [n |-> 0, d |-> 0]

INFINITY == [n |-> 1, d |-> 0]

NEG_INFINITY == [n |-> -1, d |-> 0]

IsNaN(a) == a.n = 0 /\ a.d = 0

IsFinite(a) == a.d > 0

fneg(a) == [n |-> -a.n, d |-> a.d]

\* the sum of two finite values over their least common denominator
fadd_finite(a, b, g) ==
    Q(a.n * (b.d \div g) + b.n * (a.d \div g), (a.d \div g) * b.d)

fadd(a, b) ==
    IF a.d = 0 /\ b.d = 0 THEN (IF a.n = b.n THEN a ELSE NAN)
    ELSE IF a.d = 0 THEN a
    ELSE IF b.d = 0 THEN b
    ELSE fadd_finite(a, b, GCD(a.d, b.d))

fsub(a, b) == fadd(a, fneg(b))

\* the product of two finite values, cancelling g1 = gcd(a.n, b.d) and
\* g2 = gcd(b.n, a.d) before multiplying
fmul_finite(a, b, g1, g2) ==
    [n |-> (a.n \div g1) * (b.n \div g2), d |-> (a.d \div g2) * (b.d \div g1)]

fmul(a, b) ==
    IF a.d = 0 \/ b.d = 0 THEN [n |-> Sign(a.n) * Sign(b.n), d |-> 0]
    ELSE fmul_finite(a, b, GCD(Abs(a.n), b.d), GCD(Abs(b.n), a.d))

frecip(a) == IF a.n < 0 THEN [n |-> -a.d, d |-> -a.n] ELSE [n |-> a.d, d |-> a.n]

fdiv(a, b) == fmul(a, frecip(b))

flt(a, b) ==
    IF IsNaN(a) \/ IsNaN(b) THEN FALSE
    ELSE IF a.d = 0 /\ b.d = 0 THEN a.n < b.n
    ELSE a.n * b.d < b.n * a.d

fle(a, b) ==
    IF IsNaN(a) \/ IsNaN(b) THEN FALSE
    ELSE IF a.d = 0 /\ b.d = 0 THEN a.n <= b.n
    ELSE a.n * b.d <= b.n * a.d

RECURSIVE ISqrtBetween(_, _, _)
ISqrtBetween(n, lo, hi) ==
    IF lo >= hi THEN lo
    ELSE LET mid == (lo + hi + 1) \div 2
         IN IF mid * mid <= n THEN ISqrtBetween(n, mid, hi)
            ELSE ISqrtBetween(n, lo, mid - 1)

ISqrt(n) == ISqrtBetween(n, 0, IF n < 46340 THEN n ELSE 46340)

Square(k) == k * k

IsSquare(n) == Square(ISqrt(n)) = n

fsqrt(a) ==
    IF IsNaN(a) \/ a.n < 0 THEN NAN
    ELSE IF a.d = 0 THEN INFINITY
    ELSE IF IsSquare(a.n) /\ IsSquare(a.d) THEN [n |-> ISqrt(a.n), d |-> ISqrt(a.d)]
    ELSE Q(ISqrt((a.n \div a.d) * Square(SqrtPrec)
                 + ((a.n % a.d) * Square(SqrtPrec)) \div a.d), SqrtPrec)

\* ------------------------------------------------------------- Vector3D
with_values(x, y, z) == [x |-> x, y |-> y, z |-> z]

V(x, y, z) == with_values(I(x), I(y), I(z))

new_vector == V(0, 0, 0)

length_squared(v) ==
    fadd(fadd(fmul(v.x, v.x), fmul(v.y, v.y)), fmul(v.z, v.z))

length(v) == fsqrt(length_squared(v))

dot(v, other) ==
    fadd(fadd(fmul(v.x, other.x), fmul(v.y, other.y)), fmul(v.z, other.z))

neg(v) == with_values(fneg(v.x), fneg(v.y), fneg(v.z))

add(v, other) ==
    with_values(fadd(v.x, other.x), fadd(v.y, other.y), fadd(v.z, other.z))

sub(v, other) ==
    with_values(fsub(v.x, other.x), fsub(v.y, other.y), fsub(v.z, other.z))

mul(v, t) == with_values(fmul(v.x, t), fmul(v.y, t), fmul(v.z, t))

div(v, t) == mul(v, fdiv(I(1), t))

unit_vector(v) == div(v, length(v))

\* f64 * Vector3D: v * self
mul_left(t, v) == mul(v, t)

\* cross with the products of each component added instead of subtracted
cross_unsigned(v, other) ==
    with_values(fadd(fmul(v.y, other.z), fmul(v.z, other.y)),
                fadd(fmul(v.z, other.x), fmul(v.x, other.z)),
                fadd(fmul(v.x, other.y), fmul(v.y, other.x)))

\* Vector3D::cross
cross(v, other) ==
    with_values(fsub(fmul(v.y, other.z), fmul(v.z, other.y)),
                fsub(fmul(v.z, other.x), fmul(v.x, other.z)),
                fsub(fmul(v.x, other.y), fmul(v.y, other.x)))

\* f64 ==: a NaN is equal to nothing, itself included
feq(a, b) == ~IsNaN(a) /\ ~IsNaN(b) /\ a = b

\* PartialEq for Vector3D
eq(v, other) == feq(v.x, other.x) /\ feq(v.y, other.y) /\ feq(v.z, other.z)

\* rng.gen_range(min..max), for the value u of [0, 1) the generator draws
gen_range(min, max, u) == fadd(min, fmul(fsub(max, min), u))

\* the values of [0, 1) the generator can draw
UnitDraws == { I(0), Q(1, 4), Q(1, 2), Q(3, 4), Q(7, 8) }

\* the vectors random_within(min, max) can return
random_within(min, max) ==
    { with_values(gen_range(min, max, ux), gen_range(min, max, uy), gen_range(min, max, uz)) :
        ux \in UnitDraws, uy \in UnitDraws, uz \in UnitDraws }

\* the candidates random_in_unit_sphere draws: Self::random_within(-1.0, 1.0)
UnitCandidates == random_within(I(-1), I(1))

\* the loop test of random_in_unit_sphere with the bound included
accepted_inclusive(p) == fle(length_squared(p), I(1))

\* the loop test of random_in_unit_sphere
accepted(p) == flt(length_squared(p), I(1))

\* the candidates the loop test of random_in_unit_sphere accepts
Acceptable == { c \in UnitCandidates : accepted(c) }

\* random_on_hemisphere's choice between the unit vector and its negation
on_hemisphere(unit, normal) == IF flt(I(0), dot(unit, normal)) THEN unit ELSE neg(unit)

\* ------------------------------------------------------------- Interval
Interval(min, max) == [min |-> min, max |-> max]

\* contains with both bounds excluded
contains_exclusive(self, x) == flt(self.min, x) /\ flt(x, self.max)

contains(self, x) == fle(self.min, x) /\ fle(x, self.max)

\* surrounds with the bounds included, as contains has them
surrounds_inclusive(self, x) == fle(self.min, x) /\ fle(x, self.max)

surrounds(self, x) == flt(self.min, x) /\ flt(x, self.max)

EMPTY == Interval(INFINITY, NEG_INFINITY)

UNIVERSE == Interval(NEG_INFINITY, INFINITY)

\* ------------------------------------------------------------------ Ray
create(origin, direction) == [origin |-> origin, direction |-> direction]

\* at without the parameter: origin + direction
at_unscaled(self, t) == add(self.origin, self.direction)

\* Ray::at: self.origin + t * self.direction
at(self, t) == add(self.origin, mul(self.direction, t))

\* ------------------------------------------------------------ HitRecord
HitRecord(p, normal, t, front_face) ==
    [p |-> p, normal |-> normal, t |-> t, front_face |-> front_face]

HitRecord_default == HitRecord(new_vector, new_vector, I(0), FALSE)

\* the face normal stored without the flip of a back face
store_face_normal_unflipped(self, front_face, outward_normal) ==
    [self EXCEPT !.front_face = front_face, !.normal = outward_normal]

store_face_normal(self, front_face, outward_normal) ==
    [self EXCEPT !.front_face = front_face,
                 !.normal = IF front_face THEN outward_normal ELSE neg(outward_normal)]

set_face_normal(self, r, outward_normal) ==
    store_face_normal(self, flt(dot(r.direction, outward_normal), I(0)), outward_normal)

\* --------------------------------------------------------------- Sphere
Sphere(center, radius) == [center |-> center, radius |-> radius]

Sphere_default == Sphere(new_vector, I(0))

\* a, half_b, c and the discriminant of the ray-sphere quadratic
quad_a(self, r) == length_squared(r.direction)

half_b(self, r) == dot(sub(r.origin, self.center), r.direction)

quad_c(self, r) ==
    fsub(length_squared(sub(r.origin, self.center)), fmul(self.radius, self.radius))

discriminant_of(a, hb, c) == fsub(fmul(hb, hb), fmul(a, c))

discriminant(self, r) == discriminant_of(quad_a(self, r), half_b(self, r), quad_c(self, r))

\* the two candidate roots, in the order the code tries them
root_minus(self, r) ==
    fdiv(fsub(fneg(half_b(self, r)), fsqrt(discriminant(self, r))), quad_a(self, r))

root_plus(self, r) ==
    fdiv(fadd(fneg(half_b(self, r)), fsqrt(discriminant(self, r))), quad_a(self, r))

\* the argument Sphere::hit hands to set_face_normal for a hit at point p
outward_unit_normal(self, p) == unit_vector(div(sub(p, self.center), self.radius))

\* the tail of Sphere::hit, once a root has been accepted
record_hit(self, r, rec, root, p) ==
    [hit |-> TRUE,
     rec |-> set_face_normal([rec EXCEPT !.t = root, !.p = p], r,
                             outward_unit_normal(self, p))]

\* the root search trying the larger root first
nearest_root_larger_first(self, r, ray_t, rec, root1, root2) ==
    IF surrounds(ray_t, root2) THEN record_hit(self, r, rec, root2, at(r, root2))
    ELSE IF surrounds(ray_t, root1) THEN record_hit(self, r, rec, root1, at(r, root1))
    ELSE [hit |-> FALSE, rec |-> rec]

\* the root search writing rec.t before the range test
nearest_root_writes_first(self, r, ray_t, rec, root1, root2) ==
    IF surrounds(ray_t, root1) THEN record_hit(self, r, rec, root1, at(r, root1))
    ELSE IF surrounds(ray_t, root2) THEN record_hit(self, r, rec, root2, at(r, root2))
    ELSE [hit |-> FALSE, rec |-> [rec EXCEPT !.t = root2]]

\* the root search of Sphere::hit on a non-negative discriminant
nearest_root(self, r, ray_t, rec, root1, root2) ==
    IF surrounds(ray_t, root1) THEN record_hit(self, r, rec, root1, at(r, root1))
    ELSE IF surrounds(ray_t, root2) THEN record_hit(self, r, rec, root2, at(r, root2))
    ELSE [hit |-> FALSE, rec |-> rec]

\* Sphere::hit from `let sqrtd = discriminant.sqrt()` on: the two roots
\* (-half_b - sqrtd) / a and (-half_b + sqrtd) / a and the root search
Sphere_hit_roots(self, r, ray_t, rec, a, hb, sqrtd) ==
    nearest_root(self, r, ray_t, rec, fdiv(fsub(fneg(hb), sqrtd), a), fdiv(fadd(fneg(hb), sqrtd), a))

\* Sphere::hit from `if discriminant < 0.0 { return false; }` on, given its
\* locals a, half_b and discriminant
Sphere_hit_locals(self, r, ray_t, rec, a, hb, disc) ==
    IF flt(disc, I(0)) THEN [hit |-> FALSE, rec |-> rec]
    ELSE Sphere_hit_roots(self, r, ray_t, rec, a, hb, fsqrt(disc))

Sphere_hit(self, r, ray_t, rec) ==
    Sphere_hit_locals(self, r, ray_t, rec, quad_a(self, r), half_b(self, r), discriminant(self, r))

\* --------------------------------------------------------- HittableList
\* The locals of HittableList::hit together with the caller's record.
list_locals(ray_t, rec) ==
    [temp_rec |-> HitRecord_default, hit_anything |-> FALSE,
     closest_so_far |-> ray_t.max, rec |-> rec]

\* the `if` of the loop body without `closest_so_far = temp_rec.t`
list_update_keeping_bound(st, res) ==
    IF res.hit
    THEN [temp_rec |-> res.rec, hit_anything |-> TRUE,
          closest_so_far |-> st.closest_so_far, rec |-> res.rec]
    ELSE [st EXCEPT !.temp_rec = res.rec]

\* the `if object.hit(..) { .. }` of the loop body, given the member's answer
list_update(st, res) ==
    IF res.hit
    THEN [temp_rec |-> res.rec, hit_anything |-> TRUE,
          closest_so_far |-> res.rec.t, rec |-> res.rec]
    ELSE [st EXCEPT !.temp_rec = res.rec]

\* the loop body testing every member against the whole search interval
list_body_not_narrowed(st, object, r, ray_t) ==
    list_update(st, Sphere_hit(object, r, Interval(ray_t.min, ray_t.max), st.temp_rec))

\* One pass of the body of `for object in self`.
list_body(st, object, r, ray_t) ==
    list_update(st, Sphere_hit(object, r, Interval(ray_t.min, st.closest_so_far),
                               st.temp_rec))

RECURSIVE list_fold(_, _, _, _, _)
list_fold(st, self, k, r, ray_t) ==
    IF k > Len(self) THEN st
    ELSE list_fold(list_body(st, self[k], r, ray_t), self, k + 1, r, ray_t)

list_result(st) == [hit |-> st.hit_anything, rec |-> st.rec]

HittableList_hit(self, r, ray_t, rec) ==
    list_result(list_fold(list_locals(ray_t, rec), self, 1, r, ray_t))

\* ---------------------------------------------------------------- casts
\* `x as u16` and `x as u8`: truncation toward zero, saturating, NaN to 0
as_uint(x, max) ==
    IF IsNaN(x) \/ x.n <= 0 THEN 0
    ELSE IF x.d = 0 \/ x.n \div x.d >= max THEN max
    ELSE x.n \div x.d

\* the cast rounding to the nearest integer instead of truncating
as_u16_rounding(x) == as_uint(fadd(x, Q(1, 2)), 65535)

as_u16(x) == as_uint(x, 65535)

as_u8(x) == as_uint(x, 255)

\* ------------------------------------------------------- Interval::clamp
clamp(self, x) ==
    IF flt(x, self.min) THEN self.min
    ELSE IF flt(self.max, x) THEN self.max
    ELSE x

\* ---------------------------------------------------------------- Color
linear_to_gamma(linear_component) == fsqrt(linear_component)

\* one channel written without the factor 255.999
write_channel_unscaled(c, samples_per_pixel) ==
    as_u8(clamp(Interval(I(0), Q(999, 1000)),
                linear_to_gamma(fmul(c, fdiv(I(1), I(samples_per_pixel))))))

\* one channel of Color::write: scale, gamma, clamp, quantize
write_channel(c, samples_per_pixel) ==
    as_u8(fmul(Q(255999, 1000),
               clamp(Interval(I(0), Q(999, 1000)),
                     linear_to_gamma(fmul(c, fdiv(I(1), I(samples_per_pixel)))))))

\* the line Color::write appends: "r g b\n"
Color_write(self, samples_per_pixel) ==
    << write_channel(self.x, samples_per_pixel),
       write_channel(self.y, samples_per_pixel),
       write_channel(self.z, samples_per_pixel) >>

\* --------------------------------------------------------------- Camera
image_height_of(image_width, aspect_ratio) ==
    IF as_u16(fdiv(I(image_width), aspect_ratio)) < 1 THEN 1
    ELSE as_u16(fdiv(I(image_width), aspect_ratio))

viewport_u_of(image_width, image_height) ==
    with_values(fdiv(fmul(I(2), I(image_width)), I(image_height)), I(0), I(0))

viewport_v_of == with_values(I(0), fneg(I(2)), I(0))

viewport_upper_left(center, viewport_u, viewport_v) ==
    sub(sub(sub(center, V(0, 0, 1)), div(viewport_u, I(2))), div(viewport_v, I(2)))

Camera_from_deltas(aspect_ratio, image_width, samples_per_pixel, image_height, upper_left, du, dv) ==
    [aspect_ratio |-> aspect_ratio, image_width |-> image_width,
     samples_per_pixel |-> samples_per_pixel, image_height |-> image_height,
     center |-> new_vector,
     pixel00_loc |-> add(upper_left, mul(add(du, dv), Q(1, 2))),
     pixel_du |-> du, pixel_dv |-> dv]

Camera_from_viewport(aspect_ratio, image_width, samples_per_pixel, image_height, viewport_u, viewport_v) ==
    Camera_from_deltas(aspect_ratio, image_width, samples_per_pixel, image_height,
                       viewport_upper_left(new_vector, viewport_u, viewport_v),
                       div(viewport_u, I(image_width)), div(viewport_v, I(image_height)))

\* Camera::initialize, given the image_height its first statement computes
Camera_initialize(aspect_ratio, image_width, samples_per_pixel, image_height) ==
    Camera_from_viewport(aspect_ratio, image_width, samples_per_pixel, image_height,
                         viewport_u_of(image_width, image_height), viewport_v_of)

Camera_new(aspect_ratio, image_width, samples_per_pixel) ==
    Camera_initialize(aspect_ratio, image_width, samples_per_pixel,
                      image_height_of(image_width, aspect_ratio))

\* thread_rng(): a stream of values of [0, 1) and the position reached in it
rng_gen(g) == g.stream[g.pos]

rng_next(g) == [g EXCEPT !.pos = (g.pos % Len(g.stream)) + 1]

\* Camera::pixel_sample_square, given the two values drawn
sample_square_of(self, px, py) == add(mul(self.pixel_du, px), mul(self.pixel_dv, py))

\* pixel_sample_square without the -0.5 offsets: px and py in [0, 1)
pixel_sample_square_unoffset(self, g) ==
    sample_square_of(self, rng_gen(g), rng_gen(rng_next(g)))

pixel_sample_square(self, g) ==
    sample_square_of(self, fadd(fneg(Q(1, 2)), rng_gen(g)),
                     fadd(fneg(Q(1, 2)), rng_gen(rng_next(g))))

pixel_center(self, i, j) ==
    add(add(self.pixel00_loc, mul(self.pixel_du, I(i))), mul(self.pixel_dv, I(j)))

\* Camera::ray(i, j), drawing from generator g
Camera_ray(self, i, j, g) ==
    create(self.center,
           sub(add(pixel_center(self, i, j), pixel_sample_square(self, g)), self.center))

\* the sky gradient of ray_color, for blend factor a
sky(a) ==
    add(mul(V(1, 1, 1), fsub(I(1), a)),
        mul(with_values(Q(1, 2), Q(7, 10), I(1)), a))

ray_color_of(r, res) ==
    IF res.hit THEN mul(add(res.rec.normal, V(1, 1, 1)), Q(1, 2))
    ELSE sky(fadd(fmul(Q(1, 2), unit_vector(r.direction).y), I(1)))

ray_color(r, world_) ==
    ray_color_of(r, HittableList_hit(world_, r, Interval(I(0), INFINITY),
                                     HitRecord_default))

\* the header Camera::render writes: "P3\n{w} {h}\n255\n"
header(self) == << <<"P3">>, <<self.image_width, self.image_height>>, <<255>> >>

\* --------------------------------------------------------------- inputs
Half(n) == Q(n, 2)

Spheres ==
    { Sphere(V(2, 0, 0), I(1)), Sphere(V(2, 0, 0), I(0)), Sphere(V(2, 0, 0), I(2)),
      Sphere(V(0, 0, 0), I(1)), Sphere(V(1, 1, 0), I(1)), Sphere_default }

Rays ==
    { create(V(0, 0, 0), V(1, 0, 0)), create(V(0, 0, 0), V(-1, 0, 0)),
      create(V(0, 0, 0), V(2, 0, 0)), create(V(0, 0, 0), V(1, 1, 0)),
      create(V(0, 0, 0), V(0, 0, 0)) }

Intervals ==
    { Interval(Half(1), Half(3)), Interval(Half(5), Half(7)),
      Interval(I(0), INFINITY), Interval(I(1), I(3)), Interval(I(-1), Half(7)) }

Records == { HitRecord_default, HitRecord(V(1, 0, 0), V(-1, 0, 0), I(1), TRUE) }

Normals ==
    { V(-1, 0, 0), V(1, 0, 0), V(0, 1, 0), V(0, 0, 0), V(1, -2, 0),
      with_values(Half(1), Half(-1), I(0)) }

RECURSIVE SeqsUpTo(_, _)
SeqsUpTo(S, n) ==
    IF n = 0 THEN { <<>> }
    ELSE LET shorter == SeqsUpTo(S, n - 1)
         IN shorter \cup { Append(w, s) : w \in { x \in shorter : Len(x) = n - 1 }, s \in S }

Worlds == SeqsUpTo(Spheres, MaxListLen)

AspectRatios == { Q(1, 2), I(1), Q(3, 2), I(2), Q(16, 9), I(3) }

Widths == (1..MaxWidth) \cup { 400, 65535 }

Scenes ==
    { <<>>,
      << Sphere(V(0, 0, -1), Q(1, 2)), Sphere(with_values(I(0), Q(-3, 2), I(-1)), I(1)) >> }

RngStreams == { << I(0), Q(1, 2) >>, << Q(3, 4), Q(1, 4), I(0) >>, << Q(1, 2) >> }

\* accumulated channel values handed to Color::write
Channels == { I(0), I(1), Q(1, 4), Q(1, 2), I(2), I(4), I(-1), NAN, INFINITY }

Colours == { with_values(x, y, z) : x \in Channels, y \in Channels, z \in Channels }

\* rays handed to ray_color: straight down, straight up, level, oblique, zero
SkyRays ==
    { create(new_vector, d) :
        d \in { V(0, -1, 0), V(0, 1, 0), V(0, -2, 0), V(0, 3, 0), V(1, 0, 0),
                V(3, 4, 0), V(3, -4, 0), V(0, 0, -1), V(1, 1, 0), V(0, 0, 0) } }

\* intervals and values handed to contains and surrounds
TestIntervals ==
    { Interval(Half(1), Half(3)), Interval(I(1), I(1)), Interval(I(3), I(1)),
      Interval(I(0), INFINITY), Interval(NAN, I(2)), EMPTY, UNIVERSE }

TestValues ==
    { Half(1), Half(3), I(1), I(0), I(2), I(3), Half(5), INFINITY, NEG_INFINITY, NAN }

\* rays of tests::linear_interpolation (r_zero, r_one, r_oone) and others
AtOrigins == { new_vector, V(1, 1, 1), with_values(Q(1, 2), I(-1), I(2)) }

AtDirections == { new_vector, V(1, 1, 1), V(1, -2, 3), V(0, 0, -1), with_values(Q(1, 4), I(0), Q(-3, 2)) }

AtRays == { create(o, d) : o \in AtOrigins, d \in AtDirections }

AtParams == { I(-1), I(0), I(1), I(2), I(-3), Q(1, 2), Q(-3, 4) }

\* vectors of the tests (V_123, V_ONE, V_TWO, V_RND, V_X, new()), a vector
\* of fractions and vectors with an infinite or a NaN component
LawVectors ==
    { V(1, 2, 3), V(1, 1, 1), V(2, 2, 2), V(1, -2, 3), V(1, 0, 0), new_vector,
      with_values(Q(1, 2), Q(-3, 4), Q(1, 4)),
      with_values(INFINITY, I(0), I(0)),
      with_values(NEG_INFINITY, I(1), I(1)),
      with_values(NAN, I(1), I(2)) }

LawScalars == { I(0), I(1), I(2), I(-1), Q(1, 2), INFINITY, NAN }

\* normals handed to random_on_hemisphere
HemiNormals == { V(1, 1, 1), V(1, 0, 0), V(0, 0, 1), V(0, -2, 0), V(-1, 2, 0) }

\* ---------------------------------------------------------------- state
VARIABLES
    pc,              \* which call is in progress or has returned
    world,           \* the HittableList (or the single sphere) being queried
    r,               \* the ray argument
    ray_t,           \* the search interval argument
    rec_in,          \* the caller's record as it was when the call was made
    rec,             \* the caller's record (the &mut HitRecord argument)
    outward,         \* the outward_normal argument of a direct set_face_normal call
    temp_rec,        \* HittableList::hit local
    hit_anything,    \* HittableList::hit local
    closest_so_far,  \* HittableList::hit local
    idx,             \* position of the `for object in self` loop
    ret,             \* the boolean returned by the call
    cpc,             \* position in Camera::new / Camera::render
    cam,             \* the Camera
    scene,           \* the world handed to render
    rng,             \* the thread-local random generator
    buffer,          \* render's output buffer, as a sequence of lines
    i,               \* render's column loop variable
    j,               \* render's row loop variable
    sample,          \* render's sample loop variable
    pixel_color,     \* render's accumulator
    call,            \* a call of a pure library function: its name, arguments, result
    rpc,             \* position in random_on_hemisphere and the calls it makes
    hemi_normal,     \* the normal argument of random_on_hemisphere
    candidate,       \* random_in_unit_sphere's local p
    on_unit_hemisphere, \* random_on_hemisphere's local
    hemi_ret         \* the vector random_on_hemisphere returns

hitVars ==
    <<pc, world, r, ray_t, rec_in, rec, outward, temp_rec, hit_anything,
      closest_so_far, idx, ret>>

camVars == <<cpc, cam, scene, rng, buffer, i, j, sample, pixel_color>>

randVars == <<rpc, hemi_normal, candidate, on_unit_hemisphere, hemi_ret>>

libVars == <<call, randVars>>

vars == <<hitVars, camVars, libVars>>

CamInit ==
    /\ cpc = "start"
    /\ cam = Camera_new(I(1), 100, 1)
    /\ scene = <<>>
    /\ rng = [stream |-> << I(0) >>, pos |-> 1]
    /\ buffer = <<>>
    /\ i = 0
    /\ j = 0
    /\ sample = 0
    /\ pixel_color = new_vector

HitInit ==
    /\ pc = "idle"
    /\ world = <<>>
    /\ r = create(new_vector, new_vector)
    /\ ray_t = Interval(I(0), I(0))
    /\ rec_in = HitRecord_default
    /\ rec = HitRecord_default
    /\ outward = new_vector
    /\ temp_rec = HitRecord_default
    /\ hit_anything = FALSE
    /\ closest_so_far = I(0)
    /\ idx = 0
    /\ ret = FALSE

LibInit ==
    /\ call = [op |-> "none", args |-> <<>>, result |-> FALSE]
    /\ rpc = "idle"
    /\ hemi_normal = new_vector
    /\ candidate = new_vector
    /\ on_unit_hemisphere = new_vector
    /\ hemi_ret = new_vector

Init == HitInit /\ CamInit /\ LibInit

\* rec.set_face_normal(r, outward_normal), called directly
CallSetFaceNormal ==
    /\ pc = "idle"
    /\ \E rc \in Records, ray \in Rays, n \in Normals :
         /\ r' = ray
         /\ rec_in' = rc
         /\ outward' = n
         /\ rec' = set_face_normal(rc, ray, n)
    /\ pc' = "set_face_normal_done"
    /\ UNCHANGED <<world, ray_t, temp_rec, hit_anything, closest_so_far, idx, ret>>
    /\ UNCHANGED camVars
    /\ UNCHANGED libVars

SphereReturns(res) == rec' = res.rec /\ ret' = res.hit

\* sphere.hit(&ray, ray_t, rec)
CallSphereHit ==
    /\ pc = "idle"
    /\ \E s \in Spheres, ray \in Rays, iv \in Intervals, rc \in Records :
         /\ world' = <<s>>
         /\ r' = ray
         /\ ray_t' = iv
         /\ rec_in' = rc
         /\ SphereReturns(Sphere_hit(s, ray, iv, rc))
    /\ pc' = "sphere_done"
    /\ UNCHANGED <<outward, temp_rec, hit_anything, closest_so_far, idx>>
    /\ UNCHANGED camVars
    /\ UNCHANGED libVars

ListLocals(st) ==
    /\ temp_rec' = st.temp_rec
    /\ hit_anything' = st.hit_anything
    /\ closest_so_far' = st.closest_so_far
    /\ rec' = st.rec

\* hittables.hit(&ray, ray_t, rec): entry, up to the first loop test
CallListHit ==
    /\ pc = "idle"
    /\ \E w \in Worlds, ray \in Rays, iv \in Intervals, rc \in Records :
         /\ world' = w
         /\ r' = ray
         /\ ray_t' = iv
         /\ rec_in' = rc
         /\ ListLocals(list_locals(iv, rc))
    /\ idx' = 1
    /\ pc' = "list_loop"
    /\ UNCHANGED <<outward, ret>>
    /\ UNCHANGED camVars
    /\ UNCHANGED libVars

\* one iteration of `for object in self`
ListIter ==
    /\ pc = "list_loop"
    /\ idx <= Len(world)
    /\ ListLocals(list_body([temp_rec |-> temp_rec, hit_anything |-> hit_anything,
                             closest_so_far |-> closest_so_far, rec |-> rec],
                            world[idx], r, ray_t))
    /\ idx' = idx + 1
    /\ UNCHANGED <<pc, world, r, ray_t, rec_in, outward, ret>>
    /\ UNCHANGED camVars
    /\ UNCHANGED libVars

\* the loop is exhausted: return hit_anything
ListReturn ==
    /\ pc = "list_loop"
    /\ idx > Len(world)
    /\ ret' = hit_anything
    /\ pc' = "list_done"
    /\ UNCHANGED <<world, r, ray_t, rec_in, rec, outward, temp_rec, hit_anything,
                   closest_so_far, idx>>
    /\ UNCHANGED camVars
    /\ UNCHANGED libVars

Next ==
    \/ CallSetFaceNormal
    \/ CallSphereHit
    \/ CallListHit
    \/ ListIter
    \/ ListReturn

Spec == Init /\ [][Next]_vars

\* ------------------------------------------------------ camera actions
\* Camera::new(aspect_ratio, image_width, samples_per_pixel)
CameraNew ==
    /\ cpc = "start"
    /\ \E a \in AspectRatios, w \in Widths, n \in 1..MaxSamples :
         cam' = Camera_new(a, w, n)
    /\ cpc' = "constructed"
    /\ UNCHANGED <<scene, rng, buffer, i, j, sample, pixel_color>>
    /\ UNCHANGED hitVars
    /\ UNCHANGED libVars

\* render: the buffer is created and the header written
RenderBegin ==
    /\ cpc = "constructed"
    /\ cam.image_width <= MaxPixels
    /\ cam.image_height <= MaxPixels
    /\ cam.image_width * cam.image_height <= MaxPixels
    /\ \E w \in Scenes, g \in RngStreams :
         /\ scene' = w
         /\ rng' = [stream |-> g, pos |-> 1]
    /\ buffer' = header(cam)
    /\ j' = 0
    /\ cpc' = "rows"
    /\ UNCHANGED <<cam, i, sample, pixel_color>>
    /\ UNCHANGED hitVars
    /\ UNCHANGED libVars

\* `for j in 0..self.image_height`: a row is entered
RowEnter ==
    /\ cpc = "rows"
    /\ j < cam.image_height
    /\ i' = 0
    /\ cpc' = "cols"
    /\ UNCHANGED <<cam, scene, rng, buffer, j, sample, pixel_color>>
    /\ UNCHANGED hitVars
    /\ UNCHANGED libVars

\* the row loop is exhausted: the buffer is printed
RenderFinish ==
    /\ cpc = "rows"
    /\ j >= cam.image_height
    /\ cpc' = "done"
    /\ UNCHANGED <<cam, scene, rng, buffer, i, j, sample, pixel_color>>
    /\ UNCHANGED hitVars
    /\ UNCHANGED libVars

\* a pixel is entered with the accumulator of the previous pixel kept
PixelEnter_accumulating ==
    /\ cpc = "cols"
    /\ i < cam.image_width
    /\ sample' = 0
    /\ cpc' = "samples"
    /\ UNCHANGED <<cam, scene, rng, buffer, i, j, pixel_color>>
    /\ UNCHANGED hitVars
    /\ UNCHANGED libVars

\* `for i in 0..self.image_width`: a pixel is entered
PixelEnter ==
    /\ cpc = "cols"
    /\ i < cam.image_width
    /\ pixel_color' = new_vector
    /\ sample' = 0
    /\ cpc' = "samples"
    /\ UNCHANGED <<cam, scene, rng, buffer, i, j>>
    /\ UNCHANGED hitVars
    /\ UNCHANGED libVars

\* the column loop is exhausted: next row
RowExit ==
    /\ cpc = "cols"
    /\ i >= cam.image_width
    /\ j' = j + 1
    /\ cpc' = "rows"
    /\ UNCHANGED <<cam, scene, rng, buffer, i, sample, pixel_color>>
    /\ UNCHANGED hitVars
    /\ UNCHANGED libVars

\* one sample is accumulated and the camera is moved to the sampled point
Sample_recentring ==
    /\ cpc = "samples"
    /\ sample < cam.samples_per_pixel
    /\ pixel_color' = add(pixel_color, ray_color(Camera_ray(cam, i, j, rng), scene))
    /\ cam' = [cam EXCEPT !.center = Camera_ray(cam, i, j, rng).direction]
    /\ rng' = rng_next(rng_next(rng))
    /\ sample' = sample + 1
    /\ UNCHANGED <<cpc, scene, buffer, i, j>>
    /\ UNCHANGED hitVars
    /\ UNCHANGED libVars

\* one sample is accumulated and the generator jumps to an arbitrary position
Sample_reseeding ==
    /\ cpc = "samples"
    /\ sample < cam.samples_per_pixel
    /\ pixel_color' = add(pixel_color, ray_color(Camera_ray(cam, i, j, rng), scene))
    /\ \E q \in 1..Len(rng.stream) : rng' = [rng EXCEPT !.pos = q]
    /\ sample' = sample + 1
    /\ UNCHANGED <<cpc, cam, scene, buffer, i, j>>
    /\ UNCHANGED hitVars
    /\ UNCHANGED libVars

\* `for sample in 0..self.samples_per_pixel`: one sample is accumulated
Sample ==
    /\ cpc = "samples"
    /\ sample < cam.samples_per_pixel
    /\ pixel_color' = add(pixel_color, ray_color(Camera_ray(cam, i, j, rng), scene))
    /\ rng' = rng_next(rng_next(rng))
    /\ sample' = sample + 1
    /\ UNCHANGED <<cpc, cam, scene, buffer, i, j>>
    /\ UNCHANGED hitVars
    /\ UNCHANGED libVars

\* the pixel's line replacing the last line of the buffer
WritePixel_overwriting ==
    /\ cpc = "samples"
    /\ sample >= cam.samples_per_pixel
    /\ buffer' = [buffer EXCEPT ![Len(buffer)] = Color_write(pixel_color, cam.samples_per_pixel)]
    /\ i' = i + 1
    /\ cpc' = "cols"
    /\ UNCHANGED <<cam, scene, rng, j, sample, pixel_color>>
    /\ UNCHANGED hitVars
    /\ UNCHANGED libVars

\* the sample loop is exhausted: pixel_color.write(&mut buffer, samples_per_pixel)
WritePixel ==
    /\ cpc = "samples"
    /\ sample >= cam.samples_per_pixel
    /\ buffer' = Append(buffer, Color_write(pixel_color, cam.samples_per_pixel))
    /\ i' = i + 1
    /\ cpc' = "cols"
    /\ UNCHANGED <<cam, scene, rng, j, sample, pixel_color>>
    /\ UNCHANGED hitVars
    /\ UNCHANGED libVars

NextCamera ==
    \/ CameraNew
    \/ RenderBegin
    \/ RowEnter
    \/ RenderFinish
    \/ PixelEnter
    \/ RowExit
    \/ Sample
    \/ WritePixel

SpecCamera == Init /\ [][NextCamera]_vars

\* ------------------------------------------------- properties of hit()
Returned == pc \in {"sphere_done", "list_done"}

StrictlyInside(iv, t) == flt(iv.min, t) /\ flt(t, iv.max)

\* what member k of the list answers when asked alone, over the whole interval
Direct(k) == Sphere_hit(world[k], r, ray_t, HitRecord_default)

Hits == { k \in 1..Len(world) : Direct(k).hit }

\* the answers of all members, each asked alone
DirectAll == [k \in 1..Len(world) |-> Direct(k)]

\* the list call answered true iff some answer in D is a hit, and its record is
\* that of a hit in D with the smallest t
NearestOf(D) ==
    /\ ret = (\E k \in DOMAIN D : D[k].hit)
    /\ ret => \E k \in DOMAIN D :
                /\ D[k].hit
                /\ rec = D[k].rec
                /\ \A m \in DOMAIN D : D[m].hit => fle(rec.t, D[m].rec.t)

\* two hits in D have the t the list call returned
TiedIn(D) == Cardinality({ k \in DOMAIN D : D[k].hit /\ D[k].rec.t = rec.t }) > 1

Perms(n) == { f \in [1..n -> 1..n] : \A k, m \in 1..n : f[k] = f[m] => k = m }

Permuted(f) == [k \in 1..Len(world) |-> world[f[k]]]

\* C1: whenever Sphere.hit or HittableList.hit reports a hit (also while the
\* list loop is still running), the reported t lies strictly inside the search
\* interval: min < t < max, so a root equal to min or to max is never reported.
C1_HitStrictlyInside ==
    /\ (Returned /\ ret) => StrictlyInside(ray_t, rec.t)
    /\ (pc = "list_loop" /\ hit_anything) => StrictlyInside(ray_t, rec.t)

\* C1 witness: a list whose first member has its smaller root exactly at
\* ray_t.min; the root is rejected and the larger root is the reported hit.
C1_Witness ==
    /\ pc = "list_done" /\ ret /\ Len(world) = 2
    /\ root_minus(world[1], r) = ray_t.min
    /\ rec.t = root_plus(world[1], r)

\* C2: HittableList.hit returns true iff some member, asked alone over the whole
\* interval, has a hit; the record is then that of a member whose hit has the
\* smallest t; a list of one sphere answers exactly as the sphere does.
C2_ListNearestHit ==
    pc = "list_done" =>
        /\ NearestOf(DirectAll)
        /\ Len(world) = 1 =>
             [hit |-> ret, rec |-> rec] = Sphere_hit(world[1], r, ray_t, rec_in)

\* C2 witness: two members are hit at different t and the nearer one is the
\* second in list order, so the record of the first is overwritten.
C2_Witness ==
    /\ pc = "list_done" /\ ret /\ Len(world) = 2
    /\ Hits = {1, 2}
    /\ flt(Direct(2).rec.t, Direct(1).rec.t)
    /\ rec = Direct(2).rec

\* C3: Sphere.hit reports the smaller root t1 when it is strictly inside the
\* interval, the larger root t2 only when t1 is not and t2 is, and no hit when
\* neither is inside or the discriminant is negative.
C3_SmallestValidRoot ==
    pc = "sphere_done" =>
        IF flt(discriminant(world[1], r), I(0)) THEN ~ret
        ELSE IF StrictlyInside(ray_t, root_minus(world[1], r))
             THEN ret /\ rec.t = root_minus(world[1], r)
        ELSE IF StrictlyInside(ray_t, root_plus(world[1], r))
             THEN ret /\ rec.t = root_plus(world[1], r)
        ELSE ~ret

\* C3 witness: both roots are strictly inside the interval and differ; the
\* smaller one is the reported t.
C3_Witness ==
    /\ pc = "sphere_done" /\ ret
    /\ StrictlyInside(ray_t, root_minus(world[1], r))
    /\ StrictlyInside(ray_t, root_plus(world[1], r))
    /\ flt(root_minus(world[1], r), root_plus(world[1], r))
    /\ rec.t = root_minus(world[1], r)

\* C4: when hit returns false the caller's record is exactly what it was before
\* the call; the list's record is untouched as long as no member has been hit.
C4_MissLeavesRecord ==
    /\ (Returned /\ ~ret) => rec = rec_in
    /\ (pc = "list_loop" /\ ~hit_anything) => rec = rec_in

\* C4 witness: a sphere whose roots exist but lie outside the interval is
\* missed, and the caller's record was not the default one.
C4_Witness ==
    /\ pc = "sphere_done" /\ ~ret
    /\ rec_in # HitRecord_default
    /\ flt(I(0), discriminant(world[1], r))
    /\ IsFinite(root_plus(world[1], r))

\* two members are hit at the t the list reports
Tied == TiedIn(DirectAll)

\* the distinct orders of the members of world
PermutedLists == { Permuted(f) : f \in Perms(Len(world)) }

\* res has the boolean, the t and the p the list call returned
SameHitPoint(res) == res.hit = ret /\ res.rec.t = rec.t /\ res.rec.p = rec.p

\* C5 as claimed: every permutation of the members yields the same boolean and
\* the same whole record (stated for lists of spheres of positive radius, so
\* that a violation does not rest on a degenerate sphere).
C5_Original ==
    (pc = "list_done" /\ \A k \in 1..Len(world) : flt(I(0), world[k].radius)) =>
        \A f \in Perms(Len(world)) :
            HittableList_hit(Permuted(f), r, ray_t, rec_in) = [hit |-> ret, rec |-> rec]

\* C5 amended: every permutation of the members yields the same boolean and the
\* same t and p; normal and front_face are the same too unless two members have
\* a hit at the same smallest t (then the first of them in list order is kept).
C5_OrderIndependentUpToTies ==
    pc = "list_done" =>
        IF Tied
        THEN \A w \in PermutedLists :
                 SameHitPoint(HittableList_hit(w, r, ray_t, rec_in))
        ELSE \A w \in PermutedLists :
                 HittableList_hit(w, r, ray_t, rec_in) = [hit |-> ret, rec |-> rec]

\* C5 witness: two different members are hit at different t, so the order of
\* the members decides which of them is tested first.
C5_Witness ==
    /\ pc = "list_done" /\ ret /\ Len(world) = 2
    /\ Hits = {1, 2}
    /\ world[1] # world[2]
    /\ flt(Direct(1).rec.t, Direct(2).rec.t)

\* C6 as claimed: after set_face_normal(ray, outward_normal), front_face is
\* (dot(ray.direction, outward_normal) < 0), the stored normal is outward_normal
\* or its negation accordingly, and dot(ray.direction, stored normal) <= 0 in
\* every case, the calls made by Sphere.hit included.
C6_NormalAgainstRay ==
    /\ pc = "set_face_normal_done" =>
         /\ rec.front_face = flt(dot(r.direction, outward), I(0))
         /\ rec.normal = IF rec.front_face THEN outward ELSE neg(outward)
         /\ fle(dot(r.direction, rec.normal), I(0))
    /\ (Returned /\ ret) => fle(dot(r.direction, rec.normal), I(0))

\* C7: for a sphere of positive radius and a positive discriminant, a hit at the
\* smaller root is a front face and a hit at the larger root is a back face; in
\* both cases p = ray.at(t) and the normal points against the ray.  The two
\* cases of the tests are reproduced.
C7_FrontFaceByRoot ==
    (pc = "sphere_done" /\ ret /\ flt(I(0), world[1].radius)
        /\ flt(I(0), discriminant(world[1], r))) =>
        /\ rec.t = root_minus(world[1], r) => rec.front_face
        /\ rec.t = root_plus(world[1], r) => ~rec.front_face
        /\ rec.p = at(r, rec.t)
        /\ flt(dot(r.direction, rec.normal), I(0))
        /\ (world[1] = Sphere(V(2, 0, 0), I(1)) /\ r = create(V(0, 0, 0), V(1, 0, 0))) =>
             /\ ray_t = Interval(Half(1), Half(3)) =>
                  rec = HitRecord(V(1, 0, 0), V(-1, 0, 0), I(1), TRUE)
             /\ ray_t = Interval(Half(5), Half(7)) =>
                  rec = HitRecord(V(3, 0, 0), V(-1, 0, 0), I(3), FALSE)

\* C7 witness: the ray leaves the sphere from inside: the hit is at the larger
\* root and is a back face with the normal flipped against the ray.
C7_Witness ==
    /\ pc = "sphere_done" /\ ret
    /\ flt(I(0), world[1].radius)
    /\ flt(I(0), discriminant(world[1], r))
    /\ rec.t = root_plus(world[1], r)
    /\ ~rec.front_face
    /\ rec.normal = neg(outward_unit_normal(world[1], rec.p))

\* C8 as claimed: a sphere of radius zero is never hit.
C8_ZeroRadiusNeverHit ==
    (pc = "sphere_done" /\ world[1].radius = I(0)) => ~ret

\* ------------------------------------------- calls of library functions
Called(op, args, result) ==
    /\ call' = [op |-> op, args |-> args, result |-> result]
    /\ UNCHANGED <<hitVars, camVars, randVars>>

\* color.write(&mut out, samples_per_pixel)
CallColorWrite ==
    /\ call.op = "none"
    /\ \E c \in Colours, n \in 0..MaxSamples :
         Called("write", <<c, n>>, Color_write(c, n))

\* Camera::ray_color(&r, &world)
CallRayColor ==
    /\ call.op = "none"
    /\ \E ray \in SkyRays, w \in Scenes :
         Called("ray_color", <<ray, w>>, ray_color(ray, w))

\* the relations of tests::add, mul, div, dot_product and cross_product,
\* evaluated for vectors v, w and a scalar t
vector_laws(v, w, t) ==
    [add_commutes |-> eq(add(v, w), add(w, v)),
     dot_commutes |-> feq(dot(v, w), dot(w, v)),
     mul_one      |-> eq(mul(v, I(1)), v),
     mul_sides    |-> eq(mul_left(t, v), mul(v, t)),
     double_half  |-> eq(div(mul_left(I(2), v), I(2)), v),
     cross_self   |-> eq(cross(v, v), new_vector)]

CallVectorLaws ==
    /\ call.op = "none"
    /\ \E v \in LawVectors, w \in LawVectors, t \in LawScalars :
         Called("laws", <<v, w, t>>, vector_laws(v, w, t))

\* ray.at(t): self is passed by value (Ray is Copy), the caller keeps ray
CallAt ==
    /\ call.op = "none"
    /\ \E ray \in AtRays, t \in AtParams :
         Called("at", <<ray, t>>, [point |-> at(ray, t), ray |-> ray])

\* interval.contains(x) and interval.surrounds(x)
CallInterval ==
    /\ call.op = "none"
    /\ \E iv \in TestIntervals, x \in TestValues :
         Called("interval", <<iv, x>>, <<contains(iv, x), surrounds(iv, x)>>)

NextCalls ==
    \/ CallColorWrite
    \/ CallInterval
    \/ CallRayColor
    \/ CallVectorLaws
    \/ CallAt

SpecCalls == Init /\ [][NextCalls]_vars

\* ------------------------------------------------ random vector actions
\* Vector3D::random_on_hemisphere(normal) is called; it calls
\* random_unit_vector, which calls random_in_unit_sphere
CallRandomOnHemisphere ==
    /\ rpc = "idle"
    /\ \E n \in HemiNormals : hemi_normal' = n
    /\ rpc' = "draw"
    /\ UNCHANGED <<candidate, on_unit_hemisphere, hemi_ret>>
    /\ UNCHANGED <<hitVars, camVars, call>>

\* loop body of random_in_unit_sphere: let p = Self::random_within(-1.0, 1.0)
Draw ==
    /\ rpc = "draw"
    /\ \E c \in UnitCandidates : candidate' = c
    /\ rpc' = "test"
    /\ UNCHANGED <<hemi_normal, on_unit_hemisphere, hemi_ret>>
    /\ UNCHANGED <<hitVars, camVars, call>>

\* the test fails: next iteration of the loop
Reject ==
    /\ rpc = "test"
    /\ candidate \notin Acceptable
    /\ rpc' = "draw"
    /\ UNCHANGED <<hemi_normal, candidate, on_unit_hemisphere, hemi_ret>>
    /\ UNCHANGED <<hitVars, camVars, call>>

\* the test succeeds: random_in_unit_sphere returns p
Accept ==
    /\ rpc = "test"
    /\ candidate \in Acceptable
    /\ rpc' = "in_unit_sphere_done"
    /\ UNCHANGED <<hemi_normal, candidate, on_unit_hemisphere, hemi_ret>>
    /\ UNCHANGED <<hitVars, camVars, call>>

\* random_unit_vector returns p.unit_vector() and random_on_hemisphere returns
\* it or its negation
HemisphereReturn ==
    /\ rpc = "in_unit_sphere_done"
    /\ on_unit_hemisphere' = unit_vector(candidate)
    /\ hemi_ret' = on_hemisphere(unit_vector(candidate), hemi_normal)
    /\ rpc' = "hemisphere_done"
    /\ UNCHANGED <<hemi_normal, candidate>>
    /\ UNCHANGED <<hitVars, camVars, call>>

\* random_on_hemisphere up to the return of random_in_unit_sphere
NextInUnitSphere ==
    \/ CallRandomOnHemisphere
    \/ Draw
    \/ Reject
    \/ Accept

\* the random source draws a candidate the loop test accepts
DrawAccepted == Draw /\ candidate' \in Acceptable

\* the program keeps running, and the random source, asked again and again,
\* eventually gives an acceptable candidate
SpecRandom ==
    Init /\ [][NextInUnitSphere]_vars /\ WF_vars(NextInUnitSphere) /\ SF_vars(DrawAccepted)

NextHemisphere ==
    \/ CallRandomOnHemisphere
    \/ Draw
    \/ Reject
    \/ Accept
    \/ HemisphereReturn

SpecHemisphere == Init /\ [][NextHemisphere]_vars

\* ---------------------------------------------- properties of the camera
Constructed == cpc # "start"

\* image_width / aspect_ratio of the constructed camera
Quotient == fdiv(I(cam.image_width), cam.aspect_ratio)

\* C9 as claimed: image_height = max(1, round(image_width / aspect_ratio))
\* (stated for quotients below 65535, where the u16 range plays no part).
C9_Original ==
    (Constructed /\ flt(Quotient, I(65535))) =>
        IF flt(Quotient, Q(3, 2)) THEN cam.image_height = 1
        ELSE /\ fle(I(2 * cam.image_height - 1), fmul(I(2), Quotient))
             /\ flt(fmul(I(2), Quotient), I(2 * cam.image_height + 1))

\* C9 amended: image_height = max(1, min(65535, trunc(image_width /
\* aspect_ratio))): the quotient is truncated toward zero, not rounded, and
\* saturates at the largest u16.
C9_HeightTruncated ==
    Constructed =>
        IF flt(Quotient, I(1)) THEN cam.image_height = 1
        ELSE IF fle(I(65535), Quotient) THEN cam.image_height = 65535
        ELSE /\ fle(I(cam.image_height), Quotient)
             /\ flt(Quotient, I(cam.image_height + 1))

\* C9 witness: a camera whose quotient lies half or more above its
\* image_height, so that truncating and rounding differ.
C9_Witness ==
    /\ cpc = "constructed"
    /\ cam.image_height >= 1
    /\ cam.image_height < 65535
    /\ fle(I(2 * cam.image_height + 1), fmul(I(2), Quotient))

C10_Shape ==
    /\ cpc \in {"rows", "cols", "samples", "done"} =>
         /\ Len(buffer) >= 3
         /\ buffer[1] = <<"P3">>
         /\ buffer[2] = <<cam.image_width, cam.image_height>>
         /\ buffer[3] = <<255>>
    /\ cpc = "samples" =>
         /\ i < cam.image_width
         /\ j < cam.image_height
         /\ Len(buffer) = 3 + j * cam.image_width + i
    /\ cpc = "done" => Len(buffer) = 3 + cam.image_width * cam.image_height

C10_Append ==
    buffer' # buffer =>
        /\ Len(buffer') > Len(buffer)
        /\ SubSeq(buffer', 1, Len(buffer)) = buffer
        /\ cpc = "samples" =>
             /\ Len(buffer') = Len(buffer) + 1
             /\ Len(buffer'[Len(buffer')]) = 3

\* C10: render's buffer starts with the lines P3, "<image_width> <image_height>"
\* and 255; the buffer only ever grows at its end; the line of pixel (i, j) is
\* appended when exactly j * image_width + i pixel lines are in the buffer
\* (rows top to bottom, columns left to right); and render ends with exactly
\* image_width * image_height pixel lines.
C10_RowMajorOutput == []C10_Shape /\ [][C10_Append]_vars

\* C10 witness: a finished render of an image 3 wide and 2 high.
C10_Witness ==
    /\ cpc = "done"
    /\ cam.image_width = 3
    /\ cam.image_height = 2
    /\ Len(buffer) = 9

Rendering == cpc \in {"rows", "cols", "samples", "done"}

\* the colours ray_color can give for a ray of pixel (col, row), over every
\* position the generator can be in
SampleColours(col, row) ==
    { ray_color(Camera_ray(cam, col, row, [stream |-> rng.stream, pos |-> q]), scene) :
        q \in 1..Len(rng.stream) }

\* the sums of k colours of S, accumulated from the zero colour
RECURSIVE SumsOf(_, _)
SumsOf(S, k) ==
    IF k = 0 THEN { new_vector }
    ELSE { add(c, d) : c \in SumsOf(S, k - 1), d \in S }

\* the lines the output mapping can give for the n-th pixel of the image
LinesOfPixel(n) ==
    { Color_write(c, cam.samples_per_pixel) :
        c \in SumsOf(SampleColours((n - 1) % cam.image_width, (n - 1) \div cam.image_width),
                     cam.samples_per_pixel) }

\* C11: while pixel (i, j) is sampled its accumulator is the sum, from the zero
\* colour, of exactly `sample` ray_color values of rays of pixel (i, j), with
\* sample never above samples_per_pixel; and every pixel line of the buffer is
\* the output mapping of a sum of exactly samples_per_pixel ray_color values of
\* rays of that same pixel.
C11_PixelSumOfOwnSamples ==
    /\ cpc = "samples" =>
         /\ sample <= cam.samples_per_pixel
         /\ pixel_color \in SumsOf(SampleColours(i, j), sample)
    /\ Rendering =>
         \A n \in 1..(Len(buffer) - 3) : buffer[3 + n] \in LinesOfPixel(n)

\* C11 witness: a finished render with two samples per pixel or more whose
\* first two pixels got different lines.
C11_Witness ==
    /\ cpc = "done"
    /\ cam.samples_per_pixel >= 2
    /\ Len(buffer) >= 5
    /\ buffer[4] # buffer[5]

C14_AsConstructed ==
    Constructed => cam = Camera_new(cam.aspect_ratio, cam.image_width, cam.samples_per_pixel)

C14_Frame ==
    /\ Constructed => cam' = cam
    /\ Rendering => scene' = scene

\* C14: from construction on, through every step of render and after it, every
\* field of the camera keeps the value construction gave it, and once render
\* has started the world list handed to it does not change.
C14_RenderKeepsCamera == []C14_AsConstructed /\ [][C14_Frame]_vars

\* C14 witness: a render of a world of spheres has finished, having written
\* pixel lines.
C14_Witness ==
    /\ cpc = "done"
    /\ scene # <<>>
    /\ Len(buffer) > 3

\* the generator of seed rng.stream after k samples (two draws each)
SeededAfter(k) == [stream |-> rng.stream, pos |-> ((2 * k) % Len(rng.stream)) + 1]

\* the colour of sample k of the n-th pixel (both counted from 0)
SeededSample(n, k) ==
    ray_color(Camera_ray(cam, n % cam.image_width, n \div cam.image_width,
                         SeededAfter(n * cam.samples_per_pixel + k)), scene)

\* the sum of the first k samples of the n-th pixel
RECURSIVE SeededSum(_, _)
SeededSum(n, k) ==
    IF k = 0 THEN new_vector ELSE add(SeededSum(n, k - 1), SeededSample(n, k - 1))

\* the whole output as a function of the camera, the scene and the seed
SeededOutput ==
    header(cam) \o [n \in 1..(cam.image_width * cam.image_height) |->
                      Color_write(SeededSum(n - 1, cam.samples_per_pixel),
                                  cam.samples_per_pixel)]

\* C15: the output of render is a function of the scene, the camera parameters
\* and the generator's seed only: at every step the buffer is the beginning of,
\* and at the end it is, the one output these three determine, so two renders
\* from the same seed agree on every line.
C15_OutputDeterminedBySeed ==
    /\ Rendering =>
         /\ Len(buffer) <= Len(SeededOutput)
         /\ buffer = SubSeq(SeededOutput, 1, Len(buffer))
    /\ cpc = "done" => buffer = SeededOutput

\* C15 witness: a finished render, two samples per pixel or more, from a seed
\* whose stream has different values, of a world of spheres.
C15_Witness ==
    /\ cpc = "done"
    /\ cam.samples_per_pixel >= 2
    /\ Len(rng.stream) >= 2
    /\ rng.stream[1] # rng.stream[2]
    /\ scene # <<>>
    /\ Len(buffer) >= 5

\* ------------------------------------- properties of library functions
Channel(v, k) == IF k = 1 THEN v.x ELSE IF k = 2 THEN v.y ELSE v.z

\* C12: Color::write gives for every channel an integer in 0..255; an
\* accumulated channel of exactly 1.0 with 1 sample gives 255 and an accumulated
\* channel of 0.0 gives 0.
C12_ChannelRange ==
    call.op = "write" =>
        \A k \in 1..3 :
            /\ call.result[k] \in 0..255
            /\ (Channel(call.args[1], k) = I(1) /\ call.args[2] = 1) => call.result[k] = 255
            /\ Channel(call.args[1], k) = I(0) => call.result[k] = 0

\* C12 witness: one sample of the colour (1.0, 0.0, 4.0) is written as 255 0 255.
C12_Witness ==
    /\ call.op = "write"
    /\ call.args = << with_values(I(1), I(0), I(4)), 1 >>
    /\ call.result = <<255, 0, 255>>

\* the world of a ray_color call is missed by its ray
Missed ==
    ~HittableList_hit(call.args[2], call.args[1], Interval(I(0), INFINITY),
                      HitRecord_default).hit

\* C13 as claimed: on a miss, a ray pointing straight down (unit direction
\* y = -1) is coloured exactly white (1, 1, 1), a ray pointing straight up
\* (unit direction y = +1) exactly sky-blue (0.5, 0.7, 1.0), and for every
\* direction the colour lies between the two (blend factor within [0, 1]).
C13_SkyGradient ==
    (call.op = "ray_color" /\ Missed) =>
        /\ unit_vector(call.args[1].direction).y = I(-1) => call.result = V(1, 1, 1)
        /\ unit_vector(call.args[1].direction).y = I(1) =>
             call.result = with_values(Q(1, 2), Q(7, 10), I(1))
        /\ IsFinite(unit_vector(call.args[1].direction).y) =>
             /\ fle(Q(1, 2), call.result.x) /\ fle(call.result.x, I(1))
             /\ fle(Q(7, 10), call.result.y) /\ fle(call.result.y, I(1))
             /\ call.result.z = I(1)

\* x is one of the two bounds of iv, as f64 values compare
AtBound(iv, x) == (fle(x, iv.min) /\ fle(iv.min, x)) \/ (fle(x, iv.max) /\ fle(iv.max, x))

ContainsVsSurrounds(iv, x, c, s) ==
    /\ c = (fle(iv.min, x) /\ fle(x, iv.max))
    /\ s = (flt(iv.min, x) /\ flt(x, iv.max))
    /\ s => c
    /\ (c /\ ~s) => AtBound(iv, x)
    /\ (fle(iv.min, iv.max) /\ AtBound(iv, x)) => (c /\ ~s)
    /\ flt(iv.max, iv.min) => (~c /\ ~s)
    /\ (iv = Interval(Half(1), Half(3)) /\ x = Half(1)) => (c /\ ~s)

\* C16: contains(x) is min <= x <= max and surrounds(x) is min < x < max;
\* surrounds implies contains; the two differ only at a bound, and at both
\* bounds of every interval with min <= max; an interval with min > max, such
\* as EMPTY, contains and surrounds nothing; Interval(0.5, 1.5) contains 0.5 and
\* does not surround it.
C16_ContainsVsSurrounds ==
    call.op = "interval" =>
        ContainsVsSurrounds(call.args[1], call.args[2], call.result[1], call.result[2])

\* C16 witness: Interval(0.5, 1.5) asked about its bound 1.5 contains it and
\* does not surround it.
C16_Witness ==
    /\ call.op = "interval"
    /\ call.args = << Interval(Half(1), Half(3)), Half(3) >>
    /\ call.result = <<TRUE, FALSE>>

InRange(x) == fle(I(-1), x) /\ flt(x, I(1))

C17_Returned ==
    rpc = "in_unit_sphere_done" =>
        /\ flt(length_squared(candidate), I(1))
        /\ InRange(candidate.x) /\ InRange(candidate.y) /\ InRange(candidate.z)

C17_KeepsDrawing ==
    (rpc = "test" /\ fle(I(1), length_squared(candidate))) => rpc' = "draw"

\* C17: random_in_unit_sphere returns only a candidate of squared length
\* strictly below 1 with every component in [-1, 1); while the candidate's
\* squared length is 1 or more it draws again; and, the random source being
\* fair, every call eventually returns.
C17_RejectionSampling ==
    /\ []C17_Returned
    /\ [][C17_KeepsDrawing]_vars
    /\ (rpc = "draw") ~> (rpc = "in_unit_sphere_done")

\* C17 witness: random_in_unit_sphere has returned the candidate
\* (0.75, 0.5, 0), of squared length 0.8125.
C17_Witness ==
    /\ rpc = "in_unit_sphere_done"
    /\ candidate = with_values(Q(3, 4), Q(1, 2), I(0))
    /\ length_squared(candidate) = Q(13, 16)

\* C18 as claimed: for every nonzero normal the vector random_on_hemisphere
\* returns has a strictly positive dot product with the normal.
C18_HemisphereSide ==
    (rpc = "hemisphere_done" /\ hemi_normal # new_vector) =>
        flt(I(0), dot(hemi_ret, hemi_normal))


\* --------------------------------------------------------------- C19
NoNaN(v) == ~IsNaN(v.x) /\ ~IsNaN(v.y) /\ ~IsNaN(v.z)

FiniteVector(v) == IsFinite(v.x) /\ IsFinite(v.y) /\ IsFinite(v.z)

AllLaws(res) ==
    /\ res.add_commutes
    /\ res.dot_commutes
    /\ res.mul_one
    /\ res.mul_sides
    /\ res.double_half
    /\ res.cross_self

Linear(o, t, d) == Q(o.n * t.d * d.d + t.n * d.n * o.d, o.d * t.d * d.d)

LinearPoint(ray, t) ==
    with_values(Linear(ray.origin.x, t, ray.direction.x),
                Linear(ray.origin.y, t, ray.direction.y),
                Linear(ray.origin.z, t, ray.direction.z))

\* C20: for every origin O, direction D (the zero direction included) and
\* parameter t (negative t included), ray.at(t) is O + t * D componentwise,
\* and the ray has the same origin and direction after the call.
C20_AtIsLinear ==
    call.op = "at" =>
        /\ call.result.point = LinearPoint(call.args[1], call.args[2])
        /\ call.args[1].direction = new_vector => call.result.point = call.args[1].origin
        /\ call.result.ray = call.args[1]

\* C20 witness: r_oone = ((1, 1, 1), (1, 1, 1)) was evaluated at t = -1 and
\* gave the point (0, 0, 0).
C20_Witness ==
    /\ call.op = "at"
    /\ call.args = <<create(V(1, 1, 1), V(1, 1, 1)), I(-1)>>
    /\ call.result.point = new_vector


\* --------------------------------------------------------------- C21
\* the answer in D that is first in list order among the hits with the t the
\* list call returned
FirstWithT(D) == CHOOSE k \in DOMAIN D : D[k].hit /\ D[k].rec.t = rec.t /\ \A m \in 1..(k - 1) : ~(D[m].hit /\ D[m].rec.t = rec.t)

\* while the loop runs: before the first member closest_so_far is ray_t.max,
\* and once a member was hit the caller's record holds the hit whose t is
\* closest_so_far; when the call has returned true the record is that of the
\* first member in list order among those hit at the smallest t
C21_Recorded ==
    /\ (pc = "list_loop" /\ idx = 1) => closest_so_far = ray_t.max /\ ~hit_anything
    /\ (pc = "list_loop" /\ hit_anything) => rec.t = closest_so_far /\ rec = temp_rec
    /\ (pc = "list_loop" /\ ~hit_anything) => closest_so_far = ray_t.max /\ rec = rec_in
    /\ (pc = "list_done" /\ ret) => rec = DirectAll[FirstWithT(DirectAll)].rec

\* one member processed: either closest_so_far, the record and hit_anything
\* stay as they were, or closest_so_far becomes strictly smaller and the record
\* is overwritten by a hit at the new closest_so_far, strictly nearer than the
\* hit recorded before
C21_Narrowing ==
    (pc = "list_loop" /\ idx' = idx + 1) =>
        \/ closest_so_far' = closest_so_far /\ rec' = rec /\ hit_anything' = hit_anything
        \/ /\ flt(closest_so_far', closest_so_far)
           /\ hit_anything'
           /\ rec'.t = closest_so_far'
           /\ hit_anything => flt(rec'.t, rec.t)

\* C21: during HittableList.hit closest_so_far starts at the search interval's
\* max and after each member either stays the same or becomes strictly
\* smaller; the record is overwritten only by a member hit strictly nearer than
\* the hit recorded so far, so among members hit at the same t the first in
\* list order is kept.
C21_StrictNarrowingKeepsFirst == []C21_Recorded /\ [][C21_Narrowing]_vars

\* C21 witness: the call returned a hit whose t two different members share,
\* with different records, and the record kept is that of the first.
C21_Witness ==
    /\ pc = "list_done" /\ ret /\ Len(world) = 2
    /\ DirectAll[1].hit /\ DirectAll[2].hit
    /\ DirectAll[1].rec.t = DirectAll[2].rec.t
    /\ DirectAll[1].rec # DirectAll[2].rec
    /\ rec = DirectAll[1].rec


\* --------------------------------------------------------------- C22
\* a sample of pixel (i, j) is about to be taken
Sampling == cpc = "samples" /\ sample < cam.samples_per_pixel

\* the ray Camera::ray(i, j) returns for that sample
SampleRay == Camera_ray(cam, i, j, rng)

\* the point the ray passes through at t = 1
SamplePoint(ray) == add(ray.origin, ray.direction)

\* the offsets px and py pixel_sample_square draws for that sample
SampleOffsets == <<fadd(fneg(Q(1, 2)), rng_gen(rng)), fadd(fneg(Q(1, 2)), rng_gen(rng_next(rng)))>>

InHalfOpenUnit(x) == fle(Q(-1, 2), x) /\ flt(x, Q(1, 2))

\* the cell of pixel (col, row) in the viewport of a w by h image: the viewport
\* is 2w/h wide and 2 high, centred on the z axis at z = -1, and every cell is
\* 2/h wide and 2/h high; the left and the top edge belong to the cell
InCell(pt, col, row, w, h) ==
    /\ fle(Q(2 * col - w, h), pt.x) /\ flt(pt.x, Q(2 * col + 2 - w, h))
    /\ flt(Q(h - 2 * row - 2, h), pt.y) /\ fle(pt.y, Q(h - 2 * row, h))
    /\ pt.z = I(-1)

SampleInCell(ray, off) ==
    /\ ray.origin = cam.center
    /\ InHalfOpenUnit(off[1]) /\ InHalfOpenUnit(off[2])
    /\ SamplePoint(ray) = add(pixel_center(cam, i, j), add(mul(cam.pixel_du, off[1]), mul(cam.pixel_dv, off[2])))
    /\ pixel_center(cam, i, j) = with_values(Q(2 * i + 1 - cam.image_width, cam.image_height), Q(cam.image_height - 2 * j - 1, cam.image_height), I(-1))
    /\ InCell(SamplePoint(ray), i, j, cam.image_width, cam.image_height)

\* C22: every sample ray of pixel (i, j) originates at the camera center and
\* passes through pixel_center(i, j) + px*pixel_du + py*pixel_dv with px and py
\* in [-0.5, 0.5); that point lies in the cell of pixel (i, j), in the viewport
\* plane z = -1.
C22_SampleInsidePixelCell == Sampling => SampleInCell(SampleRay, SampleOffsets)

\* C22 witness: a sample of pixel (1, 1) of an image at least two pixels wide
\* and high is about to be taken with px = -0.5, on the left edge of its cell.
C22_Witness ==
    /\ Sampling
    /\ i = 1 /\ j = 1
    /\ SampleOffsets[1] = Q(-1, 2)
    /\ SamplePoint(SampleRay).x = Q(2 - cam.image_width, cam.image_height)

====
